---- MODULE Spec2Model ----
(***************************************************************************)
(* The message router of the Alva host process (src/electron/main.ts).     *)
(* One inbound envelope starts one run of the async handler registered     *)
(* with sender.receive; a run is suspended at every await / callback and   *)
(* resumed by the event loop, so runs of distinct envelopes interleave.    *)
(* `out` is the sequence of envelopes emitted on the server's 'message'    *)
(* channel by send().                                                      *)
(***************************************************************************)
EXTENDS Integers, Sequences, FiniteSets, TLC

VARIABLES received, handlers, out, projectPath, connections,
          electronIsDev, nodeEnvDev, persisted, clientMessages

vars == <<received, handlers, out, projectPath, connections,
          electronIsDev, nodeEnvDev, persisted, clientMessages>>

(* ---------------------------- bounds ---------------------------------- *)
MaxMsgs == 2
MaxInitStore == 1

(* ---------------------------- values ---------------------------------- *)
Undefined == "undefined"
Paths == {"/a", "/b"}
LibIds == {"L1", "L2"}
MsgIds == 1..MaxMsgs

IsString(v) == v # Undefined
Truthy(v) == v # Undefined

NoPayload == [empty |-> TRUE]

(* Connection records as the UI sends them, and records as they may sit in
   the user store (legacy entries may lack a string path or id). *)
Connection == [id : LibIds, path : Paths]
StoredRecord == Connection \cup {[id |-> "L1", path |-> Undefined],
                                 [id |-> Undefined, path |-> "/a"]}

RECURSIVE SeqsUpTo(_, _)
SeqsUpTo(S, n) ==
    IF n = 0 THEN {<<>>}
    ELSE LET shorter == SeqsUpTo(S, n - 1)
         IN shorter \cup {Append(s, x) : s \in {t \in shorter : Len(t) = n - 1}, x \in S}

(* ------------------------- message types ------------------------------ *)
ExportTypes == {"ExportHTML", "ExportPDF", "ExportPNG", "ExportSketch"}
ResponseTypes == {"CreateNewFileResponse", "OpenFileResponse", "AssetReadResponse",
                  "CreateScriptBundleResponse", "ConnectPatternLibraryResponse",
                  "CheckLibraryResponse"}

Envelope(id, type, payload) == [id |-> id, type |-> type, payload |-> payload]

(* ------------------------- handler runs ------------------------------- *)
(* dialog: what the native dialog of the run resolved with ("undefined", an
   "empty" list, or a "path"); path: the run's local path; result: the tag
   of its read, build or export write; checks: its Fs.exists calls.
   pc: where the run of the handler is suspended, or how it ended:
   "done" ran to its break, "cancelled" returned because the dialog gave
   no path, "silent" returned or fell through without a reply for another
   reason, "failed" the async function rejected. *)
Idle == [type |-> "none", pc |-> "idle", payload |-> NoPayload,
         dialog |-> "pending", path |-> Undefined, result |-> "none", checks |-> <<>>]

Started(type, payload, pc) == [Idle EXCEPT !.type = type, !.payload = payload, !.pc = pc]

Ended == {"done", "cancelled", "silent", "failed"}

(* const send = message => server.emit('message', message) *)
send(log, message) == Append(log, message)

(* ----------------------- external collaborators ----------------------- *)
(* dialog.showSaveDialog resolves with a path or undefined *)
SaveDialogResults == Paths \cup {Undefined}
(* dialog.showOpenDialog resolves with a list of paths, or undefined *)
OpenDialogResults == {[isArray |-> FALSE, items |-> <<>>], [isArray |-> TRUE, items |-> <<>>]}
                     \cup {[isArray |-> TRUE, items |-> <<p>>] : p \in Paths}

SaveDialogKind(path) == IF path = Undefined THEN "undefined" ELSE "path"
OpenDialogKind(paths) ==
    IF ~paths.isArray THEN "undefined" ELSE IF paths.items = <<>> THEN "empty" ELSE "path"

(* paths[0] *)
First(items) == IF Len(items) > 0 THEN items[1] ELSE Undefined
(* Array.isArray(paths) ? paths[0] : undefined *)
ChosenPath(paths) == IF paths.isArray THEN First(paths.items) ELSE Undefined

(* Project.create({name: 'Untitled Project', path}) and its toJSON() *)
ProjectCreate(path) == [name |-> "Untitled Project", path |-> path]
(* Project.from(payload.project); project.setPath(payload.path) *)
ProjectFrom(payload) == [name |-> "Saved Project", path |-> payload.path]
(* Persistence.read: a tagged result, Error or Success with the file's contents *)
ReadStates == {"Error", "Success"}
SavedContents == [name |-> "Saved Project", path |-> Undefined]
(* contents.path = path *)
Annotate(contents, path) == [contents EXCEPT !.path = path]
(* The pattern library of a project: the global ids it has assigned, one
   entry {namespace, contextId, globalId} per context id of a namespace. *)
Namespaces == {"pattern", "property", "slot", "enumOption"}
(* what the scanner finds in a folder: context ids per namespace *)
Scanned(path) ==
    IF path = "/a"
    THEN {[namespace |-> "pattern", contextId |-> "Button"],
          [namespace |-> "property", contextId |-> "Button/label"]}
    ELSE {[namespace |-> "pattern", contextId |-> "Button"],
          [namespace |-> "pattern", contextId |-> "Card"],
          [namespace |-> "slot", contextId |-> "Card/children"],
          [namespace |-> "enumOption", contextId |-> "Card/size/large"]}
(* a global id no other allocation yields: the run that allocated it, and
   the namespace and context id it was allocated for *)
FreshGlobalId(run, namespace, contextId) ==
    [allocatedBy |-> run, namespace |-> namespace, contextId |-> contextId]
(* library.assignPatternId(contextId) and its three siblings: allocate once,
   read thereafter *)
AssignGlobalId(library, namespace, contextId, run) ==
    LET known == {entry \in library :
                     entry.namespace = namespace /\ entry.contextId = contextId}
    IN IF known # {} THEN (CHOOSE entry \in known : TRUE).globalId
       ELSE FreshGlobalId(run, namespace, contextId)
(* Analyzer.analyze(path, callbacks): the analysis of the folder, with the
   global id the library of the run assigns to each context id found *)
Analyze(path, library, run) ==
    [analysisOf |-> path,
     globalIds |-> {[namespace |-> found.namespace, contextId |-> found.contextId,
                     globalId |-> AssignGlobalId(library, found.namespace,
                                                 found.contextId, run)] :
                       found \in Scanned(path)}]
(* The project the UI serialises into a request: its library holds the global
   ids of the analyses whose responses have reached the UI, a later response
   overwriting an earlier one. *)
RECURSIVE ImportAnalyses(_, _, _)
ImportAnalyses(log, runs, libraryId) ==
    IF log = <<>> THEN {}
    ELSE LET before == ImportAnalyses(SubSeq(log, 1, Len(log) - 1), runs, libraryId)
             last == log[Len(log)]
         IN IF last.type = "ConnectPatternLibraryResponse"
               /\ runs[last.id].payload.id = libraryId
            THEN {entry \in before :
                     \A new \in last.payload.analysis.globalIds :
                         ~(new.namespace = entry.namespace
                              /\ new.contextId = entry.contextId)}
                    \cup last.payload.analysis.globalIds
            ELSE before
SerializedProject(libraryId) ==
    [id |-> libraryId, globalIds |-> ImportAnalyses(out, handlers, libraryId)]
(* String(port) *)
port == 1879
Digit(d) == CASE d = 0 -> "0" [] d = 1 -> "1" [] d = 2 -> "2" [] d = 3 -> "3" [] d = 4 -> "4"
              [] d = 5 -> "5" [] d = 6 -> "6" [] d = 7 -> "7" [] d = 8 -> "8" [] d = 9 -> "9"
RECURSIVE String(_)
String(n) == IF n < 10 THEN Digit(n) ELSE String(n \div 10) \o Digit(n % 10)
(* uuid.v4(): a token no inbound envelope carries *)
Count(log, type) == Cardinality({k \in 1..Len(log) : log[k].type = type})
Uuid(log) == 0 - (Count(log, "StartApp") + 1)

(* variant: the reply takes the id of the envelope received last *)
ConnectPatternLibraryResponseLastId(id, analysis) ==
    Envelope(received, "ConnectPatternLibraryResponse", [analysis |-> analysis])

(* --------------------------- reply envelopes -------------------------- *)
StartApp(log) == Envelope(Uuid(log), "StartApp", [port |-> String(port)])
CreateNewFileResponse(id, path, project) ==
    Envelope(id, "CreateNewFileResponse", [path |-> path, contents |-> project])
OpenFileResponse(id, path, contents) ==
    Envelope(id, "OpenFileResponse", [path |-> path, contents |-> contents])
AssetReadResponse(id, path) ==
    Envelope(id, "AssetReadResponse", [dataUriOf |-> path])
(* Path.posix.join('/', `${name}.js`) *)
BundlePath(name) == "/" \o name \o ".js"
(* outputFileSystem.readFileSync(path) *)
ReadFileSync(path) == [outputAt |-> path]
(* ['renderer', 'preview'].map(...).map(...) *)
BundleArtifact(name) ==
    [name |-> name, path |-> BundlePath(name), contents |-> ReadFileSync(BundlePath(name))]
BundleArtifacts == <<BundleArtifact("renderer"), BundleArtifact("preview")>>
CreateScriptBundleResponse(id) ==
    Envelope(id, "CreateScriptBundleResponse", [artifacts |-> BundleArtifacts])
ConnectPatternLibraryResponse(id, analysis) ==
    Envelope(id, "ConnectPatternLibraryResponse", [analysis |-> analysis])
CheckLibraryResponse(id, connection, exists) ==
    Envelope(id, "CheckLibraryResponse",
             [list |-> <<[id |-> connection.id, path |-> connection.path, connected |-> exists]>>])

(* --------------------------- connection store ------------------------- *)
(* typeof p === 'object' && typeof p.path === 'string' && typeof p.id === 'string' *)
WellFormed(c) == IsString(c.path) /\ IsString(c.id)

(* variant: of equal elements the last one is kept *)
RECURSIVE UniqWithKeepLast(_)
UniqWithKeepLast(s) ==
    IF s = <<>> THEN <<>>
    ELSE LET rest == UniqWithKeepLast(Tail(s))
         IN IF \E k \in 1..Len(rest) : rest[k] = Head(s) THEN rest ELSE <<Head(s)>> \o rest

(* lodash uniqWith(list, isEqual): keeps the first of each class of equal elements *)
RECURSIVE UniqWith(_)
UniqWith(s) ==
    IF s = <<>> THEN <<>>
    ELSE LET front == UniqWith(SubSeq(s, 1, Len(s) - 1))
             last == s[Len(s)]
         IN IF \E k \in 1..Len(front) : front[k] = last THEN front ELSE Append(front, last)

(* variant: the notified connection is appended without deduplication *)
UpsertAppendOnly(previous, connection) ==
    Append(SelectSeq(previous, WellFormed), connection)

(* uniqWith([...previousConnections, message.payload], isEqual) *)
Upsert(previous, connection) == UniqWith(Append(SelectSeq(previous, WellFormed), connection))

(* variant: the lookup takes the first well-formed record, whatever its id *)
FindConnectionAnyId(store, id) ==
    LET hits == SelectSeq(store, WellFormed)
    IN IF hits = <<>> THEN [found |-> FALSE, path |-> Undefined]
       ELSE [found |-> TRUE, path |-> hits[1].path]

(* connections.filter(wellFormed).find(c => c.id === id) *)
FindConnection(store, id) ==
    LET hits == SelectSeq(SelectSeq(store, WellFormed), LAMBDA c : c.id = id)
    IN IF hits = <<>> THEN [found |-> FALSE, path |-> Undefined]
       ELSE [found |-> TRUE, path |-> hits[1].path]

(* connections.filter(c => c.id === message.payload.id) *)
Matching(store, id) == SelectSeq(store, LAMBDA c : c.id = id)

(* ------------------------------ Init ---------------------------------- *)
(* The user store survives restarts, so the process may start with any
   stored list, legacy records included. *)
InitStores == SeqsUpTo(StoredRecord, MaxInitStore)

InitCommon ==
    /\ received = 0
    /\ handlers = [i \in MsgIds |-> Idle]
    /\ out = <<>>
    /\ projectPath = Undefined
    /\ persisted = {}
    /\ clientMessages = <<>>

Init ==
    /\ InitCommon
    /\ connections \in InitStores
    /\ electronIsDev \in BOOLEAN
    /\ nodeEnvDev \in BOOLEAN

(* --------------------- synchronous part of a run ---------------------- *)
(* envelopes that have arrived so far, on the primary channel and from the
   preview together *)
Inbound == received + Len(clientMessages)

(* the number of envelopes a behaviour may take in: the runs Init provides,
   MaxMsgs of them unless a specification says otherwise *)
Capacity == Cardinality(DOMAIN handlers)

(* variant: an envelope is dispatched only when no earlier run is suspended *)
DispatchSerial(message, run, log) ==
    /\ Inbound < Capacity
    /\ \A i \in MsgIds : handlers[i].pc \in {"idle", "done", "cancelled", "silent", "failed"}
    /\ message.id = received + 1
    /\ received' = received + 1
    /\ handlers' = [handlers EXCEPT ![message.id] = run]
    /\ out' = log

(* sender.receive(async message => { if (!message) return; send(message); switch ... *)
Dispatch(message, run, log) ==
    /\ Inbound < Capacity
    /\ message.id = received + 1
    /\ received' = received + 1
    /\ handlers' = [handlers EXCEPT ![message.id] = run]
    /\ out' = log

(* variant: the envelope is forwarded before it is tested *)
RecvNullForwarded ==
    /\ Inbound < Capacity
    /\ received' = received + 1
    /\ handlers' = [handlers EXCEPT ![received + 1] = Started("null", NoPayload, "silent")]
    /\ out' = send(out, Envelope(received + 1, "null", NoPayload))
    /\ UNCHANGED <<projectPath, connections, electronIsDev, nodeEnvDev, clientMessages,
                   persisted>>

(* if (!message) { return; } *)
RecvNull ==
    /\ Inbound < Capacity
    /\ received' = received + 1
    /\ handlers' = [handlers EXCEPT ![received + 1] = Started("null", NoPayload, "silent")]
    /\ UNCHANGED <<out, projectPath, connections, electronIsDev, nodeEnvDev,
                   clientMessages, persisted>>

RecvCheckForUpdatesRequest ==
    LET m == Envelope(received + 1, "CheckForUpdatesRequest", NoPayload)
    IN /\ Dispatch(m, Started(m.type, m.payload, "done"), send(out, m))
       /\ UNCHANGED <<projectPath, connections, electronIsDev, nodeEnvDev,
                      clientMessages, persisted>>

(* case AppLoaded: up to `await Persistence.read(projectPath)`, or to the end *)
RecvAppLoaded ==
    LET m == Envelope(received + 1, "AppLoaded", NoPayload)
        forwarded == send(out, m)
    IN /\ IF electronIsDev /\ Truthy(projectPath)
          THEN Dispatch(m, [Started(m.type, m.payload, "read") EXCEPT !.path = projectPath],
                        forwarded)
          ELSE Dispatch(m, Started(m.type, m.payload, "done"),
                        send(forwarded, StartApp(forwarded)))
       /\ UNCHANGED <<projectPath, connections, electronIsDev, nodeEnvDev,
                      clientMessages, persisted>>

(* case CreateNewFileRequest: up to `await showSaveDialog(...)` *)
RecvCreateNewFileRequest ==
    LET m == Envelope(received + 1, "CreateNewFileRequest", NoPayload)
    IN /\ Dispatch(m, Started(m.type, m.payload, "dialog"), send(out, m))
       /\ UNCHANGED <<projectPath, connections, electronIsDev, nodeEnvDev,
                      clientMessages, persisted>>

(* variant: the dialog opens without the envelope having been forwarded *)
RecvOpenFileRequestUnforwarded ==
    LET m == Envelope(received + 1, "OpenFileRequest", NoPayload)
    IN /\ Dispatch(m, Started(m.type, m.payload, "dialog"), out)
       /\ UNCHANGED <<projectPath, connections, electronIsDev, nodeEnvDev,
                      clientMessages, persisted>>

(* case OpenFileRequest: up to `await showOpenDialog(...)` *)
RecvOpenFileRequest ==
    LET m == Envelope(received + 1, "OpenFileRequest", NoPayload)
    IN /\ Dispatch(m, Started(m.type, m.payload, "dialog"), send(out, m))
       /\ UNCHANGED <<projectPath, connections, electronIsDev, nodeEnvDev,
                      clientMessages, persisted>>

(* case AssetReadRequest: up to `await showOpenDialog(...)` *)
RecvAssetReadRequest ==
    LET m == Envelope(received + 1, "AssetReadRequest", NoPayload)
    IN /\ Dispatch(m, Started(m.type, m.payload, "dialog"), send(out, m))
       /\ UNCHANGED <<projectPath, connections, electronIsDev, nodeEnvDev,
                      clientMessages, persisted>>

(* case Save: up to `await Persistence.persist(project.getPath(), project)` *)
RecvSave ==
    \E p \in Paths :
        LET m == Envelope(received + 1, "Save", [path |-> p])
            project == ProjectFrom(m.payload)
        IN /\ Dispatch(m, [Started(m.type, m.payload, "persist") EXCEPT !.path = project.path],
                       send(out, m))
           /\ projectPath' = IF nodeEnvDev THEN project.path ELSE projectPath
           /\ UNCHANGED <<connections, electronIsDev, nodeEnvDev, clientMessages, persisted>>

(* case CreateScriptBundleRequest: compiler.run(callback) is started *)
RecvCreateScriptBundleRequest ==
    LET m == Envelope(received + 1, "CreateScriptBundleRequest", NoPayload)
    IN /\ Dispatch(m, Started(m.type, m.payload, "build"), send(out, m))
       /\ UNCHANGED <<projectPath, connections, electronIsDev, nodeEnvDev,
                      clientMessages, persisted>>

(* case ExportHTML / ExportPDF / ExportPNG / ExportSketch: writeFile(path, content)
   is started and not awaited, the run ends at once *)
RecvExport ==
    \E t \in ExportTypes, p \in Paths :
        LET m == Envelope(received + 1, t, [path |-> p])
        IN /\ Dispatch(m, [Started(m.type, m.payload, "done")
                              EXCEPT !.path = m.payload.path, !.result = "writing"],
                       send(out, m))
           /\ UNCHANGED <<projectPath, connections, electronIsDev, nodeEnvDev,
                          clientMessages, persisted>>

(* case ConnectPatternLibraryRequest: up to `await showOpenDialog(...)` *)
RecvConnectPatternLibraryRequest ==
    \E l \in LibIds :
        LET m == Envelope(received + 1, "ConnectPatternLibraryRequest", SerializedProject(l))
        IN /\ Dispatch(m, Started(m.type, m.payload, "dialog"), send(out, m))
           /\ UNCHANGED <<projectPath, connections, electronIsDev, nodeEnvDev,
                          clientMessages, persisted>>

(* case UpdatePatternLibraryRequest: up to `await Analyzer.analyze(connection.path, ...)` *)
RecvUpdatePatternLibraryRequest ==
    \E l \in LibIds :
        LET m == Envelope(received + 1, "UpdatePatternLibraryRequest", SerializedProject(l))
            connection == FindConnection(connections, m.payload.id)
        IN /\ IF ~connection.found
              THEN Dispatch(m, Started(m.type, m.payload, "silent"), send(out, m))
              ELSE Dispatch(m, [Started(m.type, m.payload, "analyze")
                                   EXCEPT !.path = connection.path], send(out, m))
           /\ UNCHANGED <<projectPath, connections, electronIsDev, nodeEnvDev,
                          clientMessages, persisted>>

(* case ConnectedPatternLibraryNotification *)
RecvConnectedPatternLibraryNotification ==
    \E c \in Connection :
        LET m == Envelope(received + 1, "ConnectedPatternLibraryNotification", c)
        IN /\ Dispatch(m, Started(m.type, m.payload, "done"), send(out, m))
           /\ connections' = Upsert(connections, m.payload)
           /\ UNCHANGED <<projectPath, electronIsDev, nodeEnvDev, clientMessages, persisted>>

(* connections.filter(...).forEach(connection => Fs.exists(connection.path, callback)):
   a string path starts an asynchronous check. A path that is no string is
   refused by Fs.exists at once: depending on the Node version of the build it
   throws a TypeError out of the forEach (throws = TRUE), or it calls back
   synchronously with false. *)
RECURSIVE StartChecks(_, _, _, _, _)
StartChecks(matches, k, id, throws, acc) ==
    IF k > Len(matches) THEN acc
    ELSE LET c == matches[k]
         IN IF IsString(c.path)
            THEN StartChecks(matches, k + 1, id, throws,
                     [acc EXCEPT !.checks = Append(@, [connection |-> c, exists |-> "pending"])])
            ELSE IF throws
            THEN [acc EXCEPT !.failed = TRUE]
            ELSE StartChecks(matches, k + 1, id, throws,
                     [acc EXCEPT !.checks = Append(@, [connection |-> c, exists |-> "false"]),
                                 !.log = send(@, CheckLibraryResponse(id, c, FALSE))])

(* case CheckLibraryRequest *)
RecvCheckLibraryRequest ==
    \E l \in LibIds, throws \in BOOLEAN :
        LET m == Envelope(received + 1, "CheckLibraryRequest", [id |-> l])
            matches == Matching(connections, m.payload.id)
            started == StartChecks(matches, 1, m.id, throws,
                                   [log |-> send(out, m), checks |-> <<>>, failed |-> FALSE])
        IN /\ Dispatch(m, [Started(m.type, m.payload, IF started.failed THEN "failed" ELSE "done")
                              EXCEPT !.checks = started.checks],
                       started.log)
           /\ UNCHANGED <<projectPath, connections, electronIsDev, nodeEnvDev,
                          clientMessages, persisted>>

RecvUpdateMenu ==
    LET m == Envelope(received + 1, "UpdateMenu", NoPayload)
    IN /\ Dispatch(m, Started(m.type, m.payload, "done"), send(out, m))
       /\ UNCHANGED <<projectPath, connections, electronIsDev, nodeEnvDev,
                      clientMessages, persisted>>

RecvContextElementMenuRequest ==
    LET m == Envelope(received + 1, "ContextElementMenuRequest", NoPayload)
    IN /\ Dispatch(m, Started(m.type, m.payload, "done"), send(out, m))
       /\ UNCHANGED <<projectPath, connections, electronIsDev, nodeEnvDev,
                      clientMessages, persisted>>

(* --------------------------- continuations ---------------------------- *)
Suspended(i, type, pc) == handlers[i].type = type /\ handlers[i].pc = pc
Resume(i, run) == handlers' = [handlers EXCEPT ![i] = run]

(* variant: the run goes on to persist and reply without testing `path` *)
CreateNewFileDialogClosedUnguarded(i) ==
    /\ Suspended(i, "CreateNewFileRequest", "dialog")
    /\ \E path \in SaveDialogResults :
          /\ projectPath' = IF electronIsDev THEN path ELSE projectPath
          /\ Resume(i, [handlers[i] EXCEPT !.pc = "persist", !.path = path,
                                           !.dialog = SaveDialogKind(path)])
    /\ UNCHANGED <<received, out, connections, electronIsDev, nodeEnvDev,
                   clientMessages, persisted>>

(* CreateNewFileRequest after the save dialog, up to `await Persistence.persist` *)
CreateNewFileDialogClosed(i) ==
    /\ Suspended(i, "CreateNewFileRequest", "dialog")
    /\ \E path \in SaveDialogResults :
          /\ projectPath' = IF electronIsDev THEN path ELSE projectPath
          /\ IF Truthy(path)
             THEN Resume(i, [handlers[i] EXCEPT !.pc = "persist", !.path = path,
                                                !.dialog = SaveDialogKind(path)])
             ELSE Resume(i, [handlers[i] EXCEPT !.pc = "cancelled",
                                                !.dialog = SaveDialogKind(path)])
    /\ UNCHANGED <<received, out, connections, electronIsDev, nodeEnvDev,
                   clientMessages, persisted>>

(* variant: persist is not awaited, the reply leaves before it completes *)
CreateNewFileRepliedEarly(i) ==
    /\ Suspended(i, "CreateNewFileRequest", "persist")
    /\ persisted' = persisted
    /\ out' = send(out, CreateNewFileResponse(i, handlers[i].path,
                                               ProjectCreate(handlers[i].path)))
    /\ Resume(i, [handlers[i] EXCEPT !.pc = "done"])
    /\ UNCHANGED <<received, projectPath, connections, electronIsDev, nodeEnvDev, clientMessages>>

(* CreateNewFileRequest after persist: send CreateNewFileResponse *)
CreateNewFilePersisted(i) ==
    /\ Suspended(i, "CreateNewFileRequest", "persist")
    /\ persisted' = persisted \cup {[id |-> i, path |-> handlers[i].path]}
    /\ out' = send(out, CreateNewFileResponse(i, handlers[i].path,
                                               ProjectCreate(handlers[i].path)))
    /\ Resume(i, [handlers[i] EXCEPT !.pc = "done"])
    /\ UNCHANGED <<received, projectPath, connections, electronIsDev, nodeEnvDev, clientMessages>>

(* OpenFileRequest after the open dialog, up to `await Persistence.read(path)` *)
OpenFileDialogClosed(i) ==
    /\ Suspended(i, "OpenFileRequest", "dialog")
    /\ \E paths \in OpenDialogResults :
          LET path == ChosenPath(paths)
          IN /\ projectPath' = IF electronIsDev THEN path ELSE projectPath
             /\ IF Truthy(path)
                THEN Resume(i, [handlers[i] EXCEPT !.pc = "read", !.path = path,
                                                   !.dialog = OpenDialogKind(paths)])
                ELSE Resume(i, [handlers[i] EXCEPT !.pc = "cancelled",
                                                   !.dialog = OpenDialogKind(paths)])
    /\ UNCHANGED <<received, out, connections, electronIsDev, nodeEnvDev,
                   clientMessages, persisted>>

(* variant: the Error tag of the read is not tested *)
OpenFileReadUntested(i) ==
    /\ Suspended(i, "OpenFileRequest", "read")
    /\ \E state \in ReadStates :
          /\ Resume(i, [handlers[i] EXCEPT !.pc = "done", !.result = state])
          /\ out' = send(out, OpenFileResponse(i, handlers[i].path,
                                  Annotate(SavedContents, handlers[i].path)))
    /\ UNCHANGED <<received, projectPath, connections, electronIsDev, nodeEnvDev,
                   clientMessages, persisted>>

(* OpenFileRequest after Persistence.read *)
OpenFileRead(i) ==
    /\ Suspended(i, "OpenFileRequest", "read")
    /\ \E state \in ReadStates :
          IF state = "Error"
          THEN /\ Resume(i, [handlers[i] EXCEPT !.pc = "silent", !.result = state])
               /\ out' = out
          ELSE /\ Resume(i, [handlers[i] EXCEPT !.pc = "done", !.result = state])
               /\ out' = send(out, OpenFileResponse(i, handlers[i].path,
                                       Annotate(SavedContents, handlers[i].path)))
    /\ UNCHANGED <<received, projectPath, connections, electronIsDev, nodeEnvDev,
                   clientMessages, persisted>>

(* variant: StartApp is sent only beside the OpenFileResponse *)
AppLoadedReadStartsOnSuccess(i) ==
    /\ Suspended(i, "AppLoaded", "read")
    /\ \E state \in ReadStates :
          LET replied == send(out, OpenFileResponse(i, projectPath,
                                       Annotate(SavedContents, projectPath)))
          IN /\ out' = IF state = "Error" THEN out ELSE send(replied, StartApp(replied))
             /\ Resume(i, [handlers[i] EXCEPT !.pc = "done", !.result = state])
    /\ UNCHANGED <<received, projectPath, connections, electronIsDev, nodeEnvDev,
                   clientMessages, persisted>>

(* AppLoaded after Persistence.read(projectPath): the reply is built from the
   value projectPath has now, then StartApp is sent *)
AppLoadedRead(i) ==
    /\ Suspended(i, "AppLoaded", "read")
    /\ \E state \in ReadStates :
          LET replied == IF state = "Error" THEN out
                         ELSE send(out, OpenFileResponse(i, projectPath,
                                            Annotate(SavedContents, projectPath)))
          IN /\ out' = send(replied, StartApp(replied))
             /\ Resume(i, [handlers[i] EXCEPT !.pc = "done", !.result = state])
    /\ UNCHANGED <<received, projectPath, connections, electronIsDev, nodeEnvDev,
                   clientMessages, persisted>>

(* AssetReadRequest after the open dialog, up to `await readFile(path)` *)
AssetReadDialogClosed(i) ==
    /\ Suspended(i, "AssetReadRequest", "dialog")
    /\ \E paths \in OpenDialogResults :
          IF ~paths.isArray
          THEN Resume(i, [handlers[i] EXCEPT !.pc = "cancelled",
                                             !.dialog = OpenDialogKind(paths)])
          ELSE LET path == First(paths.items)
               IN IF ~Truthy(path)
                  THEN Resume(i, [handlers[i] EXCEPT !.pc = "cancelled",
                                                     !.dialog = OpenDialogKind(paths)])
                  ELSE Resume(i, [handlers[i] EXCEPT !.pc = "readFile", !.path = path,
                                                     !.dialog = OpenDialogKind(paths)])
    /\ UNCHANGED <<received, out, projectPath, connections, electronIsDev, nodeEnvDev,
                   clientMessages,
                   persisted>>

(* variant: the rejected read takes every suspended run down with it *)
AssetReadFileReadFatal(i) ==
    /\ Suspended(i, "AssetReadRequest", "readFile")
    /\ \E ok \in BOOLEAN :
          IF ok
          THEN /\ out' = send(out, AssetReadResponse(i, handlers[i].path))
               /\ Resume(i, [handlers[i] EXCEPT !.pc = "done", !.result = "Success"])
          ELSE /\ out' = out
               /\ handlers' = [j \in MsgIds |->
                                  IF j = i
                                  THEN [handlers[j] EXCEPT !.pc = "failed", !.result = "Error"]
                                  ELSE IF handlers[j].pc \notin (Ended \cup {"idle"})
                                  THEN [handlers[j] EXCEPT !.pc = "failed"]
                                  ELSE handlers[j]]
    /\ UNCHANGED <<received, projectPath, connections, electronIsDev, nodeEnvDev,
                   clientMessages, persisted>>

(* AssetReadRequest after readFile: a rejected read rejects the handler *)
AssetReadFileRead(i) ==
    /\ Suspended(i, "AssetReadRequest", "readFile")
    /\ \E ok \in BOOLEAN :
          IF ok
          THEN /\ out' = send(out, AssetReadResponse(i, handlers[i].path))
               /\ Resume(i, [handlers[i] EXCEPT !.pc = "done", !.result = "Success"])
          ELSE /\ out' = out
               /\ Resume(i, [handlers[i] EXCEPT !.pc = "failed", !.result = "Error"])
    /\ UNCHANGED <<received, projectPath, connections, electronIsDev, nodeEnvDev,
                   clientMessages, persisted>>

(* variant: the completed save is acknowledged with a response *)
SavePersistedAcknowledged(i) ==
    /\ Suspended(i, "Save", "persist")
    /\ persisted' = persisted \cup {[id |-> i, path |-> handlers[i].path]}
    /\ out' = send(out, CreateNewFileResponse(i, handlers[i].path,
                                               ProjectFrom(handlers[i].payload)))
    /\ Resume(i, [handlers[i] EXCEPT !.pc = "done"])
    /\ UNCHANGED <<received, projectPath, connections, electronIsDev, nodeEnvDev,
                   clientMessages>>

(* Save after persist *)
SavePersisted(i) ==
    /\ Suspended(i, "Save", "persist")
    /\ persisted' = persisted \cup {[id |-> i, path |-> handlers[i].path]}
    /\ Resume(i, [handlers[i] EXCEPT !.pc = "done"])
    /\ UNCHANGED <<received, out, projectPath, connections, electronIsDev, nodeEnvDev,
                   clientMessages>>

(* variant: the error argument of the callback is not tested *)
BundleBuiltUntested(i) ==
    /\ Suspended(i, "CreateScriptBundleRequest", "build")
    /\ \E err \in BOOLEAN :
          /\ out' = send(out, CreateScriptBundleResponse(i))
          /\ Resume(i, [handlers[i] EXCEPT !.pc = "done",
                                           !.result = IF err THEN "Error" ELSE "Success"])
    /\ UNCHANGED <<received, projectPath, connections, electronIsDev, nodeEnvDev,
                   clientMessages, persisted>>

(* compiler.run(err => ...) calls back *)
BundleBuilt(i) ==
    /\ Suspended(i, "CreateScriptBundleRequest", "build")
    /\ \E err \in BOOLEAN :
          IF err
          THEN /\ out' = out
               /\ Resume(i, [handlers[i] EXCEPT !.pc = "silent", !.result = "Error"])
          ELSE /\ out' = send(out, CreateScriptBundleResponse(i))
               /\ Resume(i, [handlers[i] EXCEPT !.pc = "done", !.result = "Success"])
    /\ UNCHANGED <<received, projectPath, connections, electronIsDev, nodeEnvDev,
                   clientMessages, persisted>>

(* ConnectPatternLibraryRequest after the directory dialog, up to `await Analyzer.analyze` *)
ConnectDialogClosed(i) ==
    /\ Suspended(i, "ConnectPatternLibraryRequest", "dialog")
    /\ \E paths \in OpenDialogResults :
          LET path == ChosenPath(paths)
          IN IF ~Truthy(path)
             THEN Resume(i, [handlers[i] EXCEPT !.pc = "cancelled",
                                                !.dialog = OpenDialogKind(paths)])
             ELSE Resume(i, [handlers[i] EXCEPT !.pc = "analyze", !.path = path,
                                                !.dialog = OpenDialogKind(paths)])
    /\ UNCHANGED <<received, out, projectPath, connections, electronIsDev, nodeEnvDev,
                   clientMessages,
                   persisted>>

(* variant: the reply of the connect run is sent a second time *)
ConnectAnalyzedTwice(i) ==
    /\ Suspended(i, "ConnectPatternLibraryRequest", "analyze")
    /\ LET analysis == Analyze(handlers[i].path, handlers[i].payload.globalIds, i)
       IN out' = send(send(out, ConnectPatternLibraryResponse(i, analysis)),
                      ConnectPatternLibraryResponse(i, analysis))
    /\ Resume(i, [handlers[i] EXCEPT !.pc = "done"])
    /\ UNCHANGED <<received, projectPath, connections, electronIsDev, nodeEnvDev,
                   clientMessages, persisted>>

(* ConnectPatternLibraryRequest after the analysis *)
ConnectAnalyzed(i) ==
    /\ Suspended(i, "ConnectPatternLibraryRequest", "analyze")
    /\ out' = send(out, ConnectPatternLibraryResponse(i,
                            Analyze(handlers[i].path, handlers[i].payload.globalIds, i)))
    /\ Resume(i, [handlers[i] EXCEPT !.pc = "done"])
    /\ UNCHANGED <<received, projectPath, connections, electronIsDev, nodeEnvDev,
                   clientMessages, persisted>>

(* UpdatePatternLibraryRequest after the analysis *)
UpdateAnalyzed(i) ==
    /\ Suspended(i, "UpdatePatternLibraryRequest", "analyze")
    /\ out' = send(out, ConnectPatternLibraryResponse(i,
                            Analyze(handlers[i].path, handlers[i].payload.globalIds, i)))
    /\ Resume(i, [handlers[i] EXCEPT !.pc = "done"])
    /\ UNCHANGED <<received, projectPath, connections, electronIsDev, nodeEnvDev,
                   clientMessages, persisted>>

(* Fs.exists(connection.path, exists => send(...)) calls back for one match *)
LibraryChecked(i) ==
    /\ handlers[i].type = "CheckLibraryRequest"
    /\ \E k \in 1..Len(handlers[i].checks) :
          /\ handlers[i].checks[k].exists = "pending"
          /\ \E exists \in BOOLEAN :
                /\ out' = send(out, CheckLibraryResponse(i, handlers[i].checks[k].connection,
                                                         exists))
                /\ Resume(i, [handlers[i] EXCEPT
                                 !.checks[k].exists = IF exists THEN "true" ELSE "false"])
    /\ UNCHANGED <<received, projectPath, connections, electronIsDev, nodeEnvDev,
                   clientMessages, persisted>>

(* --------------------------- preview relay ---------------------------- *)
(* server.on('client-message', (envelope: string) => ...): the envelope is a
   string from the preview. It is no JSON at all, or the JSON text null, or a
   JSON object with an id, a type and possibly a payload. *)
PreviewIds == {7, 8}
PreviewPayloads == {"element-1", "element-2", Undefined}
RelayedTypes == {"ContentResponse", "SketchExportResponse", "SelectElement",
                 "UnselectElement", "HighlightElement"}
(* the members of the two enumerations *)
PreviewMessageType(name) == "PreviewMessageType." \o name
ServerMessageType(name) == name
PreviewTypes == {PreviewMessageType(t) : t \in RelayedTypes \cup {"Reload"}}

ClientEnvelopes ==
    {[json |-> "unparseable"], [json |-> "null"]}
        \cup {[json |-> "object", id |-> i, type |-> t, payload |-> p] :
                 i \in PreviewIds, t \in PreviewTypes, p \in PreviewPayloads}

(* JSON.parse(envelope) *)
JsonParse(envelope) ==
    IF envelope.json = "unparseable" THEN [throws |-> TRUE, isNull |-> FALSE]
    ELSE IF envelope.json = "null" THEN [throws |-> FALSE, isNull |-> TRUE]
    ELSE [throws |-> FALSE, isNull |-> FALSE,
          message |-> [id |-> envelope.id, type |-> envelope.type, payload |-> envelope.payload]]

(* variant: SelectElement is relayed under the type of HighlightElement *)
RelayCaseMistyped(message) ==
    CASE message.type = PreviewMessageType("ContentResponse") ->
            <<Envelope(message.id, ServerMessageType("ContentResponse"), message.payload)>>
      [] message.type = PreviewMessageType("SketchExportResponse") ->
            <<Envelope(message.id, ServerMessageType("SketchExportResponse"), message.payload)>>
      [] message.type = PreviewMessageType("SelectElement") ->
            <<Envelope(message.id, ServerMessageType("HighlightElement"), message.payload)>>
      [] message.type = PreviewMessageType("UnselectElement") ->
            <<Envelope(message.id, ServerMessageType("UnselectElement"), Undefined)>>
      [] message.type = PreviewMessageType("HighlightElement") ->
            <<Envelope(message.id, ServerMessageType("HighlightElement"), message.payload)>>
      [] OTHER -> <<>>

(* switch (message.type): the envelopes handed to sender.send *)
RelayCase(message) ==
    CASE message.type = PreviewMessageType("ContentResponse") ->
            <<Envelope(message.id, ServerMessageType("ContentResponse"), message.payload)>>
      [] message.type = PreviewMessageType("SketchExportResponse") ->
            <<Envelope(message.id, ServerMessageType("SketchExportResponse"), message.payload)>>
      [] message.type = PreviewMessageType("SelectElement") ->
            <<Envelope(message.id, ServerMessageType("SelectElement"), message.payload)>>
      [] message.type = PreviewMessageType("UnselectElement") ->
            <<Envelope(message.id, ServerMessageType("UnselectElement"), Undefined)>>
      [] message.type = PreviewMessageType("HighlightElement") ->
            <<Envelope(message.id, ServerMessageType("HighlightElement"), message.payload)>>
      [] OTHER -> <<>>

(* try { const message = JSON.parse(envelope); switch (message.type) ... }
   catch (err) { console.error(...) }: a parse failure, and the TypeError of
   reading the type of null, end in the catch block *)
Relay(envelope) ==
    LET parsed == JsonParse(envelope)
    IN IF parsed.throws THEN <<>>
       ELSE IF parsed.isNull THEN <<>>
       ELSE RelayCase(parsed.message)

(* one 'client-message' event: runs to its end in one step of the event loop.
   An entry of clientMessages holds the envelope, the envelopes handed to
   sender.send for it, and how many primary envelopes had arrived before it. *)
ClientMessage ==
    /\ Inbound < Capacity
    /\ \E envelope \in ClientEnvelopes :
          clientMessages' = Append(clientMessages,
                                   [envelope |-> envelope, sent |-> Relay(envelope),
                                    after |-> received])
    /\ UNCHANGED <<received, handlers, out, projectPath, connections, electronIsDev,
                   nodeEnvDev, persisted>>

(* the promise of writeFile(path, content) settles; nobody awaits it, a
   rejection reaches process.on('unhandledRejection'), which logs it *)
ExportWritten(i) ==
    /\ handlers[i].type \in ExportTypes
    /\ handlers[i].result = "writing"
    /\ \E ok \in BOOLEAN :
          Resume(i, [handlers[i] EXCEPT !.result = IF ok THEN "Success" ELSE "Error"])
    /\ UNCHANGED <<received, out, projectPath, connections, electronIsDev, nodeEnvDev,
                   clientMessages, persisted>>

(* ------------------------------ Next ---------------------------------- *)
Next ==
    \/ RecvNull
    \/ RecvCheckForUpdatesRequest
    \/ RecvAppLoaded
    \/ RecvCreateNewFileRequest
    \/ RecvOpenFileRequest
    \/ RecvAssetReadRequest
    \/ RecvSave
    \/ RecvCreateScriptBundleRequest
    \/ RecvExport
    \/ RecvConnectPatternLibraryRequest
    \/ RecvUpdatePatternLibraryRequest
    \/ RecvConnectedPatternLibraryNotification
    \/ RecvCheckLibraryRequest
    \/ RecvUpdateMenu
    \/ RecvContextElementMenuRequest
    \/ ClientMessage
    \/ \E i \in MsgIds :
          \/ CreateNewFileDialogClosed(i)
          \/ CreateNewFilePersisted(i)
          \/ OpenFileDialogClosed(i)
          \/ OpenFileRead(i)
          \/ AppLoadedRead(i)
          \/ AssetReadDialogClosed(i)
          \/ AssetReadFileRead(i)
          \/ SavePersisted(i)
          \/ BundleBuilt(i)
          \/ ConnectDialogClosed(i)
          \/ ConnectAnalyzed(i)
          \/ UpdateAnalyzed(i)
          \/ LibraryChecked(i)
          \/ ExportWritten(i)

Spec == Init /\ [][Next]_vars

(* ======================= properties of the router ===================== *)
SingleReplyRequests == {"CreateNewFileRequest", "OpenFileRequest", "AssetReadRequest",
                        "CreateScriptBundleRequest", "ConnectPatternLibraryRequest",
                        "UpdatePatternLibraryRequest"}
DialogRequests == {"CreateNewFileRequest", "OpenFileRequest", "AssetReadRequest",
                   "ConnectPatternLibraryRequest"}

(* positions in `out` of the response-type envelopes carrying id i *)
Responses(i) == {k \in 1..Len(out) : out[k].id = i /\ out[k].type \in ResponseTypes}
NumResponses(i) == Cardinality(Responses(i))
(* position in `out` of the forwarded inbound envelope i (0 when not forwarded) *)
ForwardedAt(i) ==
    LET at == {k \in 1..Len(out) : out[k].id = i /\ out[k].type = handlers[i].type}
    IN IF at = {} THEN 0 ELSE CHOOSE k \in at : \A j \in at : k <= j
Pending(i) == handlers[i].pc \notin (Ended \cup {"idle"})
(* positions in a stored list of the well-formed records with the given id *)
StoredWithId(store, id) ==
    {k \in 1..Len(store) : WellFormed(store[k]) /\ store[k].id = id}
(* positions in `out` of the forwarded notifications *)
Notifications ==
    {k \in 1..Len(out) : out[k].type = "ConnectedPatternLibraryNotification"}

(* C1: a request of a single-reply type has at most one response carrying its
   id in every state, exactly one once its handler has run to its end on the
   replying path and none once it has ended on a branch without reply; only a
   CheckLibraryRequest can have more than one response for its id. *)
C1_AtMostOneReply ==
    \A i \in MsgIds :
        /\ handlers[i].type \in SingleReplyRequests =>
              /\ NumResponses(i) <= 1
              /\ handlers[i].pc = "done" => NumResponses(i) = 1
              /\ handlers[i].pc \in {"cancelled", "silent", "failed"} => NumResponses(i) = 0
        /\ NumResponses(i) > 1 => handlers[i].type = "CheckLibraryRequest"

C1_Witness ==
    \E i, j \in MsgIds :
        /\ handlers[i].type \in SingleReplyRequests /\ handlers[i].pc = "done"
        /\ NumResponses(i) = 1
        /\ handlers[j].type \in SingleReplyRequests /\ handlers[j].pc = "silent"
        /\ NumResponses(j) = 0

(* C2: every response-type envelope on the channel carries the id of an
   envelope received and forwarded before it, whose type is the request type
   of that response and whose own run produced the payload; it never carries
   the id of another pending request. *)
RequestOf(type) ==
    CASE type = "CreateNewFileResponse" -> {"CreateNewFileRequest"}
      [] type = "OpenFileResponse" -> {"OpenFileRequest", "AppLoaded"}
      [] type = "AssetReadResponse" -> {"AssetReadRequest"}
      [] type = "CreateScriptBundleResponse" -> {"CreateScriptBundleRequest"}
      [] type = "ConnectPatternLibraryResponse" ->
            {"ConnectPatternLibraryRequest", "UpdatePatternLibraryRequest"}
      [] type = "CheckLibraryResponse" -> {"CheckLibraryRequest"}

PayloadFrom(e, run) ==
    CASE e.type = "CreateNewFileResponse" -> e.payload.path = run.path
      [] e.type = "OpenFileResponse" ->
            run.type = "OpenFileRequest" => e.payload.path = run.path
      [] e.type = "AssetReadResponse" -> e.payload.dataUriOf = run.path
      [] e.type = "CreateScriptBundleResponse" -> run.result = "Success"
      [] e.type = "ConnectPatternLibraryResponse" -> e.payload.analysis.analysisOf = run.path
      [] e.type = "CheckLibraryResponse" -> e.payload.list[1].id = run.payload.id

C2_ReplyCarriesRequestId ==
    \A k \in 1..Len(out) :
        out[k].type \in ResponseTypes =>
            /\ out[k].id \in 1..received
            /\ handlers[out[k].id].type \in RequestOf(out[k].type)
            /\ ForwardedAt(out[k].id) \in 1..(k - 1)
            /\ PayloadFrom(out[k], handlers[out[k].id])

(* two runs were pending together and the earlier request was answered after
   the later one had been received *)
C2_Witness ==
    \E i, j \in MsgIds :
        /\ i < j /\ Pending(j)
        /\ handlers[i].type \in DialogRequests
        /\ handlers[j].type \in DialogRequests
        /\ \E k \in Responses(i) : ForwardedAt(j) \in 1..(k - 1)

(* C3: a run of one of the four dialog requests whose dialog resolved with no
   chosen path (undefined, or an empty list) has no response carrying its id,
   in every state from then on. *)
C3_CancelNeverReplies ==
    \A i \in MsgIds :
        (handlers[i].type \in DialogRequests /\ handlers[i].dialog \in {"undefined", "empty"})
            => NumResponses(i) = 0

C3_Witness ==
    \E i, j \in MsgIds :
        /\ i < j
        /\ handlers[i].type = "OpenFileRequest" /\ handlers[i].dialog = "empty"
        /\ handlers[j].type = "OpenFileRequest" /\ handlers[j].pc = "done"

(* C4: for a CreateNewFileRequest whose save dialog chose path p, every
   response with its id is a CreateNewFileResponse with payload.path = p,
   there is at most one, exactly one once the run has ended, and none before
   persist(p, project) of this run has completed. *)
C4_PersistBeforeReply ==
    \A i \in MsgIds :
        (handlers[i].type = "CreateNewFileRequest" /\ handlers[i].dialog = "path") =>
            /\ NumResponses(i) <= 1
            /\ handlers[i].pc \in Ended => NumResponses(i) = 1
            /\ \A k \in Responses(i) :
                  /\ out[k].type = "CreateNewFileResponse"
                  /\ out[k].payload.path = handlers[i].path
                  /\ handlers[i].path \in Paths
                  /\ [id |-> i, path |-> handlers[i].path] \in persisted

C4_Witness ==
    \E i \in MsgIds :
        /\ handlers[i].type = "CreateNewFileRequest" /\ handlers[i].dialog = "path"
        /\ handlers[i].pc = "done" /\ NumResponses(i) = 1

(* C5: for an OpenFileRequest whose dialog chose path p, no response with its
   id exists while the read is pending or once it returned Error; once it
   returned Success there is exactly one, an OpenFileResponse with
   payload.path = p and payload.contents.path = p. *)
C5_OpenFileReply ==
    \A i \in MsgIds :
        (handlers[i].type = "OpenFileRequest" /\ handlers[i].dialog = "path") =>
            /\ handlers[i].result \in {"none", "Error"} => NumResponses(i) = 0
            /\ handlers[i].result = "Success" =>
                  /\ NumResponses(i) = 1
                  /\ \A k \in Responses(i) :
                        /\ out[k].type = "OpenFileResponse"
                        /\ out[k].payload.path = handlers[i].path
                        /\ out[k].payload.contents.path = handlers[i].path
                        /\ handlers[i].path \in Paths

C5_Witness ==
    \E i, j \in MsgIds :
        /\ handlers[i].type = "OpenFileRequest" /\ handlers[i].result = "Error"
        /\ handlers[j].type = "OpenFileRequest" /\ handlers[j].result = "Success"
        /\ NumResponses(j) = 1

(* ---------------- the router under narrower environments -------------- *)
(* The handlers meet only in projectPath, the user store and the channel, so
   the claims about one group of handlers are also verified with the UI
   sending only the envelopes of that group. *)

(* project files: the UI sends AppLoaded, CreateNewFileRequest, OpenFileRequest,
   AssetReadRequest, Save and ConnectPatternLibraryRequest; the store is empty *)
FileInit ==
    /\ InitCommon
    /\ connections = <<>>
    /\ electronIsDev \in BOOLEAN
    /\ nodeEnvDev \in BOOLEAN

FileNext ==
    \/ RecvAppLoaded
    \/ RecvCreateNewFileRequest
    \/ RecvOpenFileRequest
    \/ RecvAssetReadRequest
    \/ RecvSave
    \/ RecvConnectPatternLibraryRequest
    \/ \E i \in MsgIds :
          \/ CreateNewFileDialogClosed(i)
          \/ CreateNewFilePersisted(i)
          \/ OpenFileDialogClosed(i)
          \/ OpenFileRead(i)
          \/ AppLoadedRead(i)
          \/ AssetReadDialogClosed(i)
          \/ AssetReadFileRead(i)
          \/ SavePersisted(i)
          \/ ConnectDialogClosed(i)
          \/ ConnectAnalyzed(i)

FileSpec == FileInit /\ [][FileNext]_vars

(* The callback of Persistence.read is a file-system completion the event loop
   always delivers; dialogs may stay open forever. *)
FileFairSpec == FileSpec /\ \A i \in MsgIds : WF_vars(AppLoadedRead(i))

(* pattern-library connections: the UI sends ConnectPatternLibraryRequest,
   UpdatePatternLibraryRequest and ConnectedPatternLibraryNotification; the
   store starts with any stored list *)
LibInit ==
    /\ InitCommon
    /\ connections \in InitStores
    /\ electronIsDev = FALSE
    /\ nodeEnvDev = FALSE

LibNext ==
    \/ RecvConnectPatternLibraryRequest
    \/ RecvUpdatePatternLibraryRequest
    \/ RecvConnectedPatternLibraryNotification
    \/ \E i \in MsgIds :
          \/ ConnectDialogClosed(i)
          \/ ConnectAnalyzed(i)
          \/ UpdateAnalyzed(i)

LibSpec == LibInit /\ [][LibNext]_vars

(* the step that receives an envelope of the given type *)
Receives(type) == received' = received + 1 /\ handlers'[received'].type = type

(* C6: every AppLoaded run ends, and exactly one StartApp carrying the port
   1879 as a string has been sent per ended AppLoaded run, in or out of
   development mode, with or without a last known path, whatever the read
   returns; a response with the AppLoaded id exists exactly when development
   mode is on, a last known path was set at receipt and the read returned
   Success, and it is an OpenFileResponse. *)
AppLoadedDone == {i \in MsgIds : handlers[i].type = "AppLoaded" /\ handlers[i].pc = "done"}

C6_StartAppState ==
    /\ Count(out, "StartApp") = Cardinality(AppLoadedDone)
    /\ \A k \in 1..Len(out) :
          out[k].type = "StartApp" => out[k].payload.port = "1879" /\ out[k].id \notin MsgIds
    /\ \A i \in MsgIds :
          handlers[i].type = "AppLoaded" =>
              /\ NumResponses(i) =
                    IF /\ electronIsDev
                       /\ Truthy(handlers[i].path)
                       /\ handlers[i].result = "Success"
                    THEN 1 ELSE 0
              /\ \A k \in Responses(i) : out[k].type = "OpenFileResponse"

C6_StartAppAlways ==
    /\ []C6_StartAppState
    /\ \A i \in MsgIds : (handlers[i].type = "AppLoaded") ~> (i \in AppLoadedDone)

(* in development mode an AppLoaded run re-read the last known path, got
   Error, sent no response and still sent StartApp *)
C6_Witness ==
    \E i \in AppLoadedDone :
        /\ electronIsDev /\ handlers[i].path \in Paths /\ handlers[i].result = "Error"
        /\ NumResponses(i) = 0
        /\ Count(out, "StartApp") = 1 /\ out[Len(out)].type = "StartApp"

(* C7: once every existence check of a CheckLibraryRequest for library L has
   called back, the number of CheckLibraryResponse envelopes with the request's
   id equals the number of stored Connections whose id is L (none when none
   matches), and each is the one-element list {id, path, connected} of one of
   them. Stated for the requests after whose receipt the store did not change,
   so that the store of the state is the store the request read. *)
ChecksPending(i) ==
    \E k \in 1..Len(handlers[i].checks) : handlers[i].checks[k].exists = "pending"
StoreReadBy(i) ==
    \A k \in Notifications : k < ForwardedAt(i)

C7_OneReplyPerMatch ==
    \A i \in MsgIds :
        (/\ handlers[i].type = "CheckLibraryRequest"
         /\ ~ChecksPending(i)
         /\ StoreReadBy(i)) =>
            /\ NumResponses(i) = Cardinality(StoredWithId(connections, handlers[i].payload.id))
            /\ \A k \in Responses(i) :
                  /\ out[k].type = "CheckLibraryResponse"
                  /\ Len(out[k].payload.list) = 1
                  /\ \E j \in StoredWithId(connections, handlers[i].payload.id) :
                        /\ out[k].payload.list[1].id = connections[j].id
                        /\ out[k].payload.list[1].path = connections[j].path

(* C8: an UpdatePatternLibraryRequest for a library id with no well-formed
   stored record of that id ends without reply; otherwise the analysis runs on
   the path of the first stored record of that id and, once it completes,
   exactly one response with the request's id has been sent, of type
   ConnectPatternLibraryResponse, the type a ConnectPatternLibraryRequest with
   a chosen directory is answered with. *)
C8_LooksUpStore ==
    Receives("UpdatePatternLibraryRequest") =>
        LET run == handlers'[received']
            hits == StoredWithId(connections, run.payload.id)
        IN IF hits = {}
           THEN run.pc = "silent"
           ELSE /\ run.pc = "analyze"
                /\ run.path = connections[CHOOSE k \in hits : \A j \in hits : k <= j].path

C8_RepliesState ==
    \A i \in MsgIds :
        /\ handlers[i].type = "UpdatePatternLibraryRequest" =>
              /\ NumResponses(i) = IF handlers[i].pc = "done" THEN 1 ELSE 0
              /\ \A k \in Responses(i) :
                    /\ out[k].type = "ConnectPatternLibraryResponse"
                    /\ out[k].payload.analysis.analysisOf = handlers[i].path
        /\ (handlers[i].type = "ConnectPatternLibraryRequest" /\ handlers[i].dialog = "path") =>
              \A k \in Responses(i) : out[k].type = "ConnectPatternLibraryResponse"

C8_UpdateReply == [][C8_LooksUpStore]_vars /\ []C8_RepliesState

C8_Witness ==
    \E i, j \in MsgIds :
        /\ handlers[i].type = "UpdatePatternLibraryRequest" /\ handlers[i].pc = "silent"
        /\ handlers[j].type = "UpdatePatternLibraryRequest" /\ handlers[j].pc = "done"
        /\ NumResponses(j) = 1

(* C9: handling a ConnectedPatternLibraryNotification whose Connection equals
   that of the notification handled last leaves the stored list unchanged,
   whatever the store held before the first of the two. *)
LastNotified == out[CHOOSE k \in Notifications : \A j \in Notifications : j <= k].payload

C9_UpsertTwice ==
    (/\ Receives("ConnectedPatternLibraryNotification")
     /\ Notifications # {}
     /\ handlers'[received'].payload = LastNotified)
        => connections' = connections

C9_UpsertIdempotent == [][C9_UpsertTwice]_vars

C9_Witness ==
    /\ Len(connections) = 2
    /\ \E i, j \in MsgIds :
          /\ i < j
          /\ handlers[i].type = "ConnectedPatternLibraryNotification"
          /\ handlers[j].type = "ConnectedPatternLibraryNotification"
          /\ handlers[i].payload = handlers[j].payload

(* C10: after a ConnectedPatternLibraryNotification the stored list has no two
   equal records; the well-formed records stored before are all still there in
   the order of their first occurrence; the notified Connection is there, last
   when it was not stored before; records that share only the path or only the
   id with it are kept beside it. *)
NoDuplicates(store) ==
    \A j, k \in 1..Len(store) : store[j] = store[k] => j = k
FirstAt(store, c) ==
    LET at == {k \in 1..Len(store) : store[k] = c}
    IN IF at = {} THEN 0 ELSE CHOOSE k \in at : \A j \in at : k <= j

C10_UpsertStep ==
    Receives("ConnectedPatternLibraryNotification") =>
        LET c == handlers'[received'].payload
            before == {r \in Connection : FirstAt(connections, r) > 0}
        IN /\ NoDuplicates(connections')
           /\ \A r \in before \cup {c} : FirstAt(connections', r) > 0
           /\ \A a, b \in before :
                 FirstAt(connections, a) < FirstAt(connections, b)
                    => FirstAt(connections', a) < FirstAt(connections', b)
           /\ c \notin before => connections'[Len(connections')] = c
           /\ \A r \in before :
                 (r # c /\ (r.id = c.id \/ r.path = c.path))
                    => FirstAt(connections', r) > 0 /\ FirstAt(connections', c) > 0

C10_UpsertKeepsOrder == [][C10_UpsertStep]_vars

C10_Witness ==
    /\ Len(connections) = 3
    /\ connections[1].id = connections[2].id /\ connections[1].path # connections[2].path
    /\ connections[2].path = connections[3].path /\ connections[2].id # connections[3].id
    /\ Cardinality(Notifications) = 2

(* C11: no operation on the connection store lets a stored record without a
   string path or a string id through: no CheckLibraryResponse reports such a
   record, no UpdatePatternLibraryRequest analyzes one, the stored list holds
   none after a notification, and none of the three handlers fails. *)
StoreReaders == {"UpdatePatternLibraryRequest", "ConnectedPatternLibraryNotification",
                 "CheckLibraryRequest"}

C11_MalformedDropped ==
    /\ \A k \in 1..Len(out) :
          out[k].type = "CheckLibraryResponse" =>
              /\ IsString(out[k].payload.list[1].path)
              /\ IsString(out[k].payload.list[1].id)
    /\ \A i \in MsgIds :
          /\ handlers[i].type \in StoreReaders => handlers[i].pc # "failed"
          /\ (handlers[i].type = "UpdatePatternLibraryRequest"
                 /\ handlers[i].pc \in {"analyze", "done"}) => handlers[i].path \in Paths
          /\ handlers[i].type = "ConnectedPatternLibraryNotification" =>
                \A k \in 1..Len(connections) : WellFormed(connections[k])

(* the preview relay alone: only 'client-message' events arrive *)
PreviewInit ==
    /\ InitCommon
    /\ connections = <<>>
    /\ electronIsDev = FALSE
    /\ nodeEnvDev = FALSE

PreviewNext == ClientMessage

PreviewSpec == PreviewInit /\ [][PreviewNext]_vars

IsRelayed(envelope) ==
    envelope.json = "object" /\ envelope.type \in {PreviewMessageType(t) : t \in RelayedTypes}
(* equal envelopes were relayed alike, wherever they stand in the sequence *)
RelayStateless ==
    \A j, k \in 1..Len(clientMessages) :
        clientMessages[j].envelope = clientMessages[k].envelope
            => clientMessages[j].sent = clientMessages[k].sent

(* C12 as stated: for every parseable preview envelope of one of the five
   relayed types exactly one envelope was sent, with the same id, the same
   payload and the server type of the same name; for every other envelope
   nothing was sent; equal envelopes were relayed alike. *)
C12_RelayVerbatim ==
    /\ \A k \in 1..Len(clientMessages) :
          LET envelope == clientMessages[k].envelope
              sent == clientMessages[k].sent
          IN IF IsRelayed(envelope)
             THEN /\ Len(sent) = 1
                  /\ sent[1].id = envelope.id
                  /\ PreviewMessageType(sent[1].type) = envelope.type
                  /\ sent[1].payload = envelope.payload
             ELSE sent = <<>>
    /\ RelayStateless

(* C12, amended: as above, except that an UnselectElement is relayed with an
   undefined payload whatever payload it carried. *)
C12_RelayMapping ==
    /\ \A k \in 1..Len(clientMessages) :
          LET envelope == clientMessages[k].envelope
              sent == clientMessages[k].sent
          IN IF IsRelayed(envelope)
             THEN /\ Len(sent) = 1
                  /\ sent[1].id = envelope.id
                  /\ PreviewMessageType(sent[1].type) = envelope.type
                  /\ sent[1].payload =
                        IF envelope.type = PreviewMessageType("UnselectElement")
                        THEN Undefined ELSE envelope.payload
             ELSE sent = <<>>
    /\ RelayStateless

(* a SelectElement was relayed with its payload after an UnselectElement that
   carried a payload had been relayed without it *)
C12_Witness ==
    /\ Len(clientMessages) = 2
    /\ clientMessages[1].envelope.json = "object"
    /\ clientMessages[1].envelope.type = PreviewMessageType("UnselectElement")
    /\ clientMessages[1].envelope.payload = "element-1"
    /\ clientMessages[1].sent = <<Envelope(clientMessages[1].envelope.id, "UnselectElement",
                                           Undefined)>>
    /\ clientMessages[2].envelope.json = "object"
    /\ clientMessages[2].envelope.type = PreviewMessageType("SelectElement")
    /\ clientMessages[2].sent = <<Envelope(clientMessages[2].envelope.id, "SelectElement",
                                           "element-2")>>

(* positions in `out` where inbound envelope i was forwarded *)
Forwards(i) == {k \in 1..Len(out) : out[k].id = i /\ out[k].type = handlers[i].type}
(* positions in clientMessages of the envelopes that failed to parse *)
Unparseable == {k \in 1..Len(clientMessages) : clientMessages[k].envelope.json = "unparseable"}

(* C13: nothing is emitted for a null primary envelope or an unparseable
   preview envelope (every envelope on the channel is the forward or the
   response of a non-null inbound envelope, or the StartApp of an ended
   AppLoaded run, and nothing was handed to sender.send for an unparseable
   one); whatever arrived before, the router accepts the next envelope on
   both channels, every non-null envelope is forwarded exactly once and a
   single-reply request that ran to its end has its one response. *)
C13_MalformedDropped ==
    /\ \A k \in Unparseable : clientMessages[k].sent = <<>>
    /\ \A k \in 1..Len(out) :
          \/ out[k].type = "StartApp"
          \/ out[k].id \in 1..received /\ handlers[out[k].id].type # "null"
    /\ Count(out, "StartApp") =
          Cardinality({i \in MsgIds : handlers[i].type = "AppLoaded" /\ handlers[i].pc = "done"})
    /\ \A i \in 1..received :
          /\ handlers[i].type = "null" => handlers[i].pc = "silent"
          /\ handlers[i].type # "null" => Cardinality(Forwards(i)) = 1
          /\ (handlers[i].type \in SingleReplyRequests /\ handlers[i].pc = "done")
                => NumResponses(i) = 1
    /\ Inbound < MaxMsgs =>
          /\ ENABLED RecvNull
          /\ ENABLED RecvOpenFileRequest
          /\ ENABLED RecvCheckLibraryRequest
          /\ ENABLED ClientMessage

(* an OpenFileRequest that arrived after an unparseable preview envelope was
   forwarded and answered *)
C13_Witness ==
    \E k \in Unparseable, i \in MsgIds :
        /\ clientMessages[k].after < i
        /\ handlers[i].type = "OpenFileRequest" /\ handlers[i].pc = "done"
        /\ Cardinality(Forwards(i)) = 1 /\ NumResponses(i) = 1
        /\ Len(out) = 2

(* an OpenFileRequest that arrived after a null envelope was forwarded and
   answered *)
C13_WitnessNull ==
    \E i, j \in MsgIds :
        /\ i < j
        /\ handlers[i].type = "null"
        /\ handlers[j].type = "OpenFileRequest" /\ handlers[j].pc = "done"
        /\ Cardinality(Forwards(j)) = 1 /\ NumResponses(j) = 1
        /\ Len(out) = 2

(* C14: while a run is suspended at its dialog, read, build or analysis the
   router still accepts the next envelope; the forwards of the envelopes stand
   on the channel in the order of receipt, each before everything its own run
   sent later, whatever the order of the replies. *)
C14_ReceiptOrder ==
    /\ \A i, j \in 1..received :
          (i < j /\ handlers[i].type # "null" /\ handlers[j].type # "null")
              => (0 < ForwardedAt(i) /\ ForwardedAt(i) < ForwardedAt(j))
    /\ \A i \in 1..received : \A k \in Responses(i) : ForwardedAt(i) < k
    /\ ((\E i \in MsgIds : Pending(i)) /\ Inbound < MaxMsgs) =>
          /\ ENABLED RecvAppLoaded
          /\ ENABLED RecvOpenFileRequest
          /\ ENABLED RecvCreateScriptBundleRequest
          /\ ENABLED RecvCheckLibraryRequest

(* the later of two requests was answered while the earlier one is still
   suspended at its dialog *)
C14_Witness ==
    \E i, j \in MsgIds :
        /\ i < j
        /\ handlers[i].type = "OpenFileRequest" /\ handlers[i].pc = "dialog"
        /\ NumResponses(i) = 0
        /\ handlers[j].type = "CreateScriptBundleRequest" /\ handlers[j].pc = "done"
        /\ NumResponses(j) = 1
        /\ ForwardedAt(i) < ForwardedAt(j)

(* side effects: the UI sends the fire-and-forget envelopes and the requests
   whose side effect can fail (file read, asset read, build, export); the
   store is empty *)
EffectInit ==
    /\ InitCommon
    /\ connections = <<>>
    /\ electronIsDev \in BOOLEAN
    /\ nodeEnvDev \in BOOLEAN

EffectNext ==
    \/ RecvCheckForUpdatesRequest
    \/ RecvAppLoaded
    \/ RecvOpenFileRequest
    \/ RecvAssetReadRequest
    \/ RecvSave
    \/ RecvCreateScriptBundleRequest
    \/ RecvExport
    \/ RecvConnectedPatternLibraryNotification
    \/ RecvUpdateMenu
    \/ RecvContextElementMenuRequest
    \/ \E i \in MsgIds :
          \/ OpenFileDialogClosed(i)
          \/ OpenFileRead(i)
          \/ AppLoadedRead(i)
          \/ AssetReadDialogClosed(i)
          \/ AssetReadFileRead(i)
          \/ SavePersisted(i)
          \/ BundleBuilt(i)
          \/ ExportWritten(i)

EffectSpec == EffectInit /\ [][EffectNext]_vars

(* C15: a CreateScriptBundleRequest has no response with its id while the
   build has not called back and once it called back with an error; once it
   called back without error it has exactly one, a CreateScriptBundleResponse
   whose payload lists two artifacts {name, path, contents}: 'renderer' at
   '/renderer.js', then 'preview' at '/preview.js', the contents read from the
   output file system at that path. *)
C15_BundleReply ==
    \A i \in MsgIds :
        handlers[i].type = "CreateScriptBundleRequest" =>
            /\ handlers[i].result \in {"none", "Error"} => NumResponses(i) = 0
            /\ handlers[i].result = "none" <=> handlers[i].pc = "build"
            /\ handlers[i].result = "Success" =>
                  /\ NumResponses(i) = 1
                  /\ \A k \in Responses(i) :
                        LET artifacts == out[k].payload.artifacts
                        IN /\ out[k].type = "CreateScriptBundleResponse"
                           /\ Len(artifacts) = 2
                           /\ \A a \in 1..2 : DOMAIN artifacts[a] = {"name", "path", "contents"}
                           /\ artifacts[1].name = "renderer"
                           /\ artifacts[1].path = "/renderer.js"
                           /\ artifacts[1].contents = ReadFileSync("/renderer.js")
                           /\ artifacts[2].name = "preview"
                           /\ artifacts[2].path = "/preview.js"
                           /\ artifacts[2].contents = ReadFileSync("/preview.js")

(* one build failed and stayed unanswered, another succeeded and was answered *)
C15_Witness ==
    \E i, j \in MsgIds :
        /\ handlers[i].type = "CreateScriptBundleRequest" /\ handlers[i].result = "Error"
        /\ NumResponses(i) = 0
        /\ handlers[j].type = "CreateScriptBundleRequest" /\ handlers[j].result = "Success"
        /\ NumResponses(j) = 1

(* C16: a Save has no response; and when development mode is on, Save envelopes
   are the only ones that set the last known path and the last of them before
   an AppLoaded carried path p, that AppLoaded re-reads p and, on a successful
   read, is answered with an OpenFileResponse whose path is p. *)
SetsPathAtDialog == {"CreateNewFileRequest", "OpenFileRequest"}
LastSaveBefore(j, i) ==
    /\ j < i
    /\ handlers[j].type = "Save"
    /\ \A k \in 1..received : k > j => handlers[k].type # "Save"
    /\ \A k \in 1..received : handlers[k].type \notin SetsPathAtDialog

C16_SaveSetsLastPath ==
    /\ \A j \in MsgIds : handlers[j].type = "Save" => NumResponses(j) = 0
    /\ \A i, j \in 1..received :
          (electronIsDev /\ handlers[i].type = "AppLoaded" /\ LastSaveBefore(j, i)) =>
              /\ handlers[i].path = handlers[j].payload.path
              /\ handlers[i].result = "Success" =>
                    \E k \in Responses(i) :
                        /\ out[k].type = "OpenFileResponse"
                        /\ out[k].payload.path = handlers[j].payload.path

(* the same where NODE_ENV is 'development' as well *)
C16_SaveSetsLastPathNodeEnv == nodeEnvDev => C16_SaveSetsLastPath

C16_WitnessNodeEnv ==
    \E i, j \in 1..received :
        /\ electronIsDev /\ nodeEnvDev
        /\ handlers[i].type = "AppLoaded" /\ LastSaveBefore(j, i)
        /\ handlers[i].result = "Success" /\ NumResponses(i) = 1

(* C17: the step in which the dialog of a CreateNewFileRequest,
   OpenFileRequest, AssetReadRequest or ConnectPatternLibraryRequest returns
   no chosen path changes nothing but the position of that run: the last
   known path, the stored connections, the persisted files and the channel
   keep their values. *)
Cancels(i) ==
    /\ handlers[i].type \in DialogRequests
    /\ handlers[i].pc = "dialog"
    /\ handlers'[i].pc = "cancelled"

C17_CancelStep ==
    \A i \in MsgIds :
        Cancels(i) =>
            /\ projectPath' = projectPath
            /\ connections' = connections
            /\ persisted' = persisted
            /\ out' = out
            /\ \A j \in MsgIds \ {i} : handlers'[j] = handlers[j]

C17_CancelChangesNothing == [][C17_CancelStep]_vars

(* the same for the two requests that never write the last known path *)
C17_CancelStepAssetConnect ==
    \A i \in MsgIds :
        (Cancels(i) /\ handlers[i].type \in {"AssetReadRequest", "ConnectPatternLibraryRequest"})
            => UNCHANGED <<projectPath, connections, persisted, out>>

C17_CancelAssetConnect == [][C17_CancelStepAssetConnect]_vars

(* C18: no response-type envelope ever carries the id of a
   CheckForUpdatesRequest, Save, ExportHTML, ExportPDF, ExportPNG,
   ExportSketch, ConnectedPatternLibraryNotification, UpdateMenu or
   ContextElementMenuRequest, while its side effect is under way and after it
   has succeeded or failed; such an envelope appears on the channel once, as
   its own forward. *)
FireAndForget == {"CheckForUpdatesRequest", "Save", "ConnectedPatternLibraryNotification",
                  "UpdateMenu", "ContextElementMenuRequest"} \cup ExportTypes

C18_NoResponse ==
    \A i \in MsgIds :
        handlers[i].type \in FireAndForget =>
            /\ NumResponses(i) = 0
            /\ \A k \in 1..Len(out) : out[k].id = i => out[k].type = handlers[i].type
            /\ Cardinality(Forwards(i)) = 1

(* an export whose write failed and a save that was persisted, both without
   response *)
C18_Witness ==
    \E i, j \in MsgIds :
        /\ handlers[i].type \in ExportTypes /\ handlers[i].result = "Error"
        /\ handlers[j].type = "Save" /\ handlers[j].pc = "done"
        /\ [id |-> j, path |-> handlers[j].path] \in persisted
        /\ Len(out) = 2

(* positions in `out` of the analyses made for the project with library id l *)
AnalysesOf(l) ==
    {k \in 1..Len(out) : /\ out[k].type = "ConnectPatternLibraryResponse"
                         /\ handlers[out[k].id].payload.id = l}
GlobalIdsAt(k) == out[k].payload.analysis.globalIds

(* C19: over all analyses made for one project, by ConnectPatternLibraryRequest
   or UpdatePatternLibraryRequest, a context id of a namespace has one global
   id and a global id of a namespace has one context id; analyses of the same
   folder carry the same global ids. *)
C19_AllocateOnce ==
    \A l \in LibIds : \A j, k \in AnalysesOf(l) :
        /\ \A a \in GlobalIdsAt(j), b \in GlobalIdsAt(k) :
              a.namespace = b.namespace =>
                  (a.contextId = b.contextId <=> a.globalId = b.globalId)
        /\ out[j].payload.analysis.analysisOf = out[k].payload.analysis.analysisOf
              => GlobalIdsAt(j) = GlobalIdsAt(k)

(* the same for requests of which each was sent after the response to the one
   before it had arrived *)
OneAtATime ==
    \A i, j \in 1..received :
        (i < j /\ handlers[i].type \in {"ConnectPatternLibraryRequest",
                                         "UpdatePatternLibraryRequest"}
               /\ Responses(j) # {})
            => \A k \in Responses(i) : k < ForwardedAt(j)

C19_AllocateOnceOneAtATime == OneAtATime => C19_AllocateOnce

C19_WitnessOneAtATime ==
    /\ OneAtATime
    /\ \E j, k \in AnalysesOf("L1") :
          /\ j < k
          /\ out[j].payload.analysis.analysisOf = "/a"
          /\ out[k].payload.analysis.analysisOf = "/b"
          /\ handlers[out[k].id].type = "UpdatePatternLibraryRequest"

(* runs whose side effect failed: the asset read was rejected, Persistence
   returned Error, the build called back with an error, the export write was
   rejected *)
SideEffectFailed == {i \in MsgIds : handlers[i].result = "Error"}

(* C20: a run whose side effect failed has ended and has no response (the
   router sends no tagged error reply, it stays silent); no other run fails
   with it; every envelope is still forwarded once, every request whose own
   side effect succeeded has its one response, every ended AppLoaded its
   StartApp; and after a failure the router accepts the next envelope. *)
C20_FailureAbsorbed ==
    /\ \A i \in SideEffectFailed :
          /\ handlers[i].pc \in Ended
          /\ NumResponses(i) = 0
    /\ \A j \in 1..received :
          /\ handlers[j].pc = "failed" => j \in SideEffectFailed
          /\ Cardinality(Forwards(j)) = 1
          /\ (handlers[j].type \in SingleReplyRequests /\ handlers[j].result = "Success")
                => (NumResponses(j) = 1 /\ handlers[j].pc = "done")
    /\ Count(out, "StartApp") =
          Cardinality({i \in MsgIds : handlers[i].type = "AppLoaded" /\ handlers[i].pc = "done"})
    /\ (SideEffectFailed # {} /\ Inbound < MaxMsgs) =>
          /\ ENABLED RecvAppLoaded
          /\ ENABLED RecvOpenFileRequest
          /\ ENABLED RecvAssetReadRequest
          /\ ENABLED RecvCreateScriptBundleRequest
          /\ ENABLED RecvExport

(* the asset read of the first request was rejected; the second request, an
   asset read as well, was answered *)
C20_Witness ==
    \E i, j \in MsgIds :
        /\ i < j
        /\ handlers[i].type = "AssetReadRequest" /\ handlers[i].pc = "failed"
        /\ i \in SideEffectFailed /\ NumResponses(i) = 0
        /\ handlers[j].type = "AssetReadRequest" /\ handlers[j].pc = "done"
        /\ NumResponses(j) = 1

(* ------------- the last known path while AppLoaded reads -------------- *)
(* The path an AppLoaded run reads can only change under it when a path was
   set before the run started and is set again before the read returns: a
   setter, AppLoaded and a second setter, one envelope more than MaxMsgs.
   The UI sends AppLoaded, CreateNewFileRequest, OpenFileRequest and Save;
   the store is empty. *)
RaceMsgs == MaxMsgs + 1
RaceIds == 1..RaceMsgs

RaceInit ==
    /\ received = 0
    /\ handlers = [i \in RaceIds |-> Idle]
    /\ out = <<>>
    /\ projectPath = Undefined
    /\ persisted = {}
    /\ clientMessages = <<>>
    /\ connections = <<>>
    /\ electronIsDev \in BOOLEAN
    /\ nodeEnvDev \in BOOLEAN

RaceNext ==
    \/ RecvAppLoaded
    \/ RecvCreateNewFileRequest
    \/ RecvOpenFileRequest
    \/ RecvSave
    \/ \E i \in RaceIds :
          \/ CreateNewFileDialogClosed(i)
          \/ CreateNewFilePersisted(i)
          \/ OpenFileDialogClosed(i)
          \/ OpenFileRead(i)
          \/ AppLoadedRead(i)
          \/ SavePersisted(i)

RaceSpec == RaceInit /\ [][RaceNext]_vars

(* the AppLoaded runs and the positions in `out` of their OpenFileResponse *)
AppLoadedRuns == {i \in DOMAIN handlers : handlers[i].type = "AppLoaded"}
AppLoadedReplies(i) == {k \in Responses(i) : out[k].type = "OpenFileResponse"}

(* C21: whatever CreateNewFileRequest, OpenFileRequest and Save runs are
   interleaved with an AppLoaded run, the OpenFileResponse emitted for it
   carries in payload.path and in payload.contents.path one defined path, the
   path its contents were read from.  The code reads the last known path
   again after the read has returned, so the statement does not hold. *)
C21_ReplySelfConsistent ==
    \A i \in AppLoadedRuns : \A k \in AppLoadedReplies(i) :
        /\ out[k].payload.path \in Paths
        /\ out[k].payload.contents.path = out[k].payload.path
        /\ out[k].payload.path = handlers[i].path

(* C21, the part that holds: payload.path and payload.contents.path of the
   reply are always equal, and a read that returns while the last known path
   is still the path read replies with that path *)
C21_ReplyPathsAgree ==
    \A i \in AppLoadedRuns : \A k \in AppLoadedReplies(i) :
        out[k].payload.contents.path = out[k].payload.path

C21_ConsistentWhenPathKept ==
    [][\A i \in RaceIds :
          (/\ Suspended(i, "AppLoaded", "read")
           /\ handlers'[i].pc = "done"
           /\ projectPath = handlers[i].path)
             => \A k \in {n \in 1..Len(out') :
                            out'[n].id = i /\ out'[n].type = "OpenFileResponse"} :
                   /\ out'[k].payload.path = handlers[i].path
                   /\ out'[k].payload.contents.path = handlers[i].path
                   /\ handlers[i].path \in Paths]_vars

(* the race: a reply of an AppLoaded run names a path other than the one read,
   or no path at all *)
C21_WitnessOtherPath ==
    \E i \in AppLoadedRuns : \E k \in AppLoadedReplies(i) :
        out[k].payload.path \in Paths \ {handlers[i].path}

C21_WitnessNoPath ==
    \E i \in AppLoadedRuns : \E k \in AppLoadedReplies(i) :
        out[k].payload.path = Undefined

(* ----------------------- forward before all else ---------------------- *)
(* the runs of the non-null envelopes received so far *)
NonNullRuns == {i \in MsgIds : handlers[i].pc # "idle" /\ handlers[i].type # "null"}
(* positions in `out` of every envelope that carries the id i *)
CarryingId(i) == {k \in 1..Len(out) : out[k].id = i}

(* in every state: one forward per non-null envelope, equal to the envelope
   received, standing before everything else that carries its id; whatever a
   run persisted, its envelope had been forwarded *)
C22_ForwardedOnce ==
    /\ \A i \in NonNullRuns :
          /\ Cardinality(Forwards(i)) = 1
          /\ out[ForwardedAt(i)] = Envelope(i, handlers[i].type, handlers[i].payload)
          /\ \A k \in CarryingId(i) \ Forwards(i) :
                ForwardedAt(i) < k /\ out[k].type \in ResponseTypes
    /\ \A i \in MsgIds \ NonNullRuns : CarryingId(i) = {}
    /\ \A r \in persisted : r.id \in NonNullRuns

(* in every step: the step that receives a non-null envelope emits its forward
   first, before anything else the run emits synchronously; a step that
   resumes a run finds the forward on the channel and adds no forward; the
   envelope a run was started with never changes *)
C22_ForwardedFirst ==
    \A i \in MsgIds :
        /\ (handlers[i].pc = "idle" /\ handlers'[i].pc # "idle" /\ handlers'[i].type # "null")
              => /\ Len(out') > Len(out)
                 /\ out'[Len(out) + 1] =
                       Envelope(i, handlers'[i].type, handlers'[i].payload)
        /\ (handlers[i].pc # "idle" /\ handlers[i].type # "null")
              => /\ Forwards(i) # {}
                 /\ handlers'[i].type = handlers[i].type
                 /\ handlers'[i].payload = handlers[i].payload
                 /\ \A k \in Len(out) + 1..Len(out') :
                       ~(out'[k].id = i /\ out'[k].type = handlers[i].type)

(* C22: every non-null inbound envelope is forwarded unchanged to the server's
   message channel exactly once, in the step that receives it and before
   anything else of its run: before its side effect and before every response
   that carries its id.  So the request with a given id precedes every
   response with that id on the channel. *)
C22_ForwardFirstOnce == [](C22_ForwardedOnce) /\ [][C22_ForwardedFirst]_vars

(* two requests in flight were each forwarded once; the later one has been
   answered and persisted behind both forwards, its envelope unchanged *)
C22_Witness ==
    \E i, j \in NonNullRuns :
        /\ i < j
        /\ handlers[i].type = "AssetReadRequest" /\ Pending(i)
        /\ handlers[j].type = "CreateNewFileRequest" /\ handlers[j].pc = "done"
        /\ [id |-> j, path |-> handlers[j].path] \in persisted
        /\ Forwards(i) = {1} /\ Forwards(j) = {2} /\ Responses(j) = {3}
        /\ out[2] = Envelope(j, "CreateNewFileRequest", NoPayload)

====
